---- MODULE Spec2Model ----
(***************************************************************************)
(* The upstream-forwarding engine of the DNS proxy                         *)
(* (src/rco/dnsproxy/upstream.go): UpstreamsManager.Apply, forwardRequest, *)
(* UpstreamSelector, buildUpstreamMsg, NewUpstreamsManager and the          *)
(* IndexRoundRobin counter, as a state machine of concurrent request tasks. *)
(***************************************************************************)
EXTENDS Integers, Sequences, FiniteSets, TLC

(* ------------------------------ bounds -------------------------------- *)

\* Longest configured server list.
MaxServers == 2
\* Longest candidate list of one EngineQuery.
MaxCands == 2
\* Last tick of the wall clock.
MaxTime == 2
\* Most exchanges of one forwarding loop that the model follows.
MaxIter == 2
\* Largest max of a standalone IndexRoundRobin, and largest bound of LimitedGet.
MaxBound == 4
\* Most calls of Get made on a standalone IndexRoundRobin.
MaxCalls == 6
\* Most calls of LimitedGet made on a standalone IndexRoundRobin.
MaxLimitedCalls == 4

(* ------------------------- program constants -------------------------- *)

ByOrderLB == 0
RoundRobinLB == 1
AllGroupName == "all"
ALLOWED == "ALLOWED"
DENIED == "DENIED"
ErrEmptyQuery == "can't get as input empty EngineQuery"
ErrNoResponse == "failed to get response from Upstream Servers"

\* The request tasks: one goroutine per incoming request.
Tasks == {"t1", "t2"}
NoTask == "none"

\* A nil pointer is the empty sequence, a non-nil one a one-element sequence.
Nil == <<>>
Ref(x) == <<x>>

(* ------------------------------ data ---------------------------------- *)

\* Annotations of a server: no annotation at all, or a "region" annotation.
NoAnnotations == [k \in {} |-> ""]
RegionAnnotation(r) == [k \in {"region"} |-> r]
RegionNames == {"eu"}
AnnotationChoices == {NoAnnotations} \cup {RegionAnnotation(r) : r \in RegionNames}

Address(n) == <<"10.0.0.1:53", "10.0.0.2:53", "10.0.0.3:53", "10.0.0.4:53">>[n]
Addresses == {Address(n) : n \in 1..(MaxServers + 1)}

\* UpstreamServer{Address, Annotations}
UpstreamServer(n, ann) == [Address |-> Address(n), Annotations |-> ann]

\* Every server list of a given length: server n has the n-th address.
ServerLists(n) ==
  {[k \in 1..n |-> UpstreamServer(k, f[k])] : f \in [1..n -> AnnotationChoices]}

\* Query{Name, Type}
QueryA == [Name |-> "api.service.consul.", Type |-> 1]
QueryB == [Name |-> "api.ronco.", Type |-> 28]
CandidateSeq == <<QueryA, QueryB, QueryA, QueryB>>
CandidateLists == {SubSeq(CandidateSeq, 1, n) : n \in 0..MaxCands}

\* The originating protocol message: one question, no answer.
OriginMsg ==
  [Question |-> <<[Name |-> "api.ronco.", Qtype |-> 1, Qclass |-> 1]>>,
   Answer |-> <<>>]

AnswerRR == "rr"

VARIABLES
  Servers,           \* usm.Servers
  LBType,            \* usm.LBType
  regionMapNil,      \* usm.regionMap == nil
  serversRegionMap,  \* usm.serversRegionMap
  Timeout,           \* usm.Timeout
  TelemetryEnabled,  \* globalConfig.Telemetry.Enabled
  rr,                \* the IndexRoundRobin {current, max}
  mutex,             \* the holder of the IndexRoundRobin's sync.Mutex, NoTask when free
  now,               \* the wall clock read by time.Now()
  request_count,     \* counter hoopoe.request_count, by remoteHost label
  request_failed,    \* counter hoopoe.request_failed, by remoteHost label
  rrHist,            \* the calls on the IndexRoundRobin, in the order they read the counter
  pc,                \* where each request task stands
  query,             \* Apply's argument query, per task
  metadata,          \* Apply's argument metadata, per task
  qi,                \* position of the range loop of Apply (1-based)
  upsRequest,        \* forwardRequest's req
  startTime,         \* forwardRequest's startTime
  currentTime,       \* forwardRequest's currentTime
  sampleGap,         \* time between the last two reads of the clock in forwardRequest
  servers,           \* forwardRequest's servers, indices into Servers
  i,                 \* forwardRequest's loop counter
  result,            \* LimitedGet's result
  remoteHost,        \* forwardRequest's remoteHost
  ret,               \* what Apply returned
  sent,              \* the exchanges a task completed, in order
  selects,           \* number of UpstreamSelector calls a task made
  upstream           \* what client.Exchange may give back, per server address

cfgVars == <<Servers, LBType, regionMapNil, serversRegionMap, Timeout, TelemetryEnabled>>
envVars == <<upstream>>
sharedVars == <<rr, mutex, request_count, request_failed, rrHist>>
taskVars == <<pc, query, metadata, qi, upsRequest, startTime, currentTime, sampleGap,
              servers, i, result, remoteHost, ret, sent, selects>>
vars == <<cfgVars, envVars, sharedVars, now, taskVars>>

(* ------------------------ NewUpstreamsManager ------------------------- *)

\* A Go map read: the zero value (a nil slice) for a key that is absent.
MapGet(m, k) == IF k \in DOMAIN m THEN m[k] ELSE <<>>

\* m[k] = append(m[k], v)
MapAppend(m, k, v) ==
  [x \in DOMAIN m \cup {k} |-> IF x = k THEN Append(MapGet(m, k), v) ELSE m[x]]

EmptyMap == [k \in {} |-> <<>>]

\* The loop of NewUpstreamsManager over usm.Servers[1..n]; a ServersView holds
\* pointers into usm.Servers, here the positions of the servers.
RECURSIVE RegionGroups(_, _)
RegionGroups(srvs, n) ==
  IF n = 0 THEN EmptyMap
  ELSE LET m == RegionGroups(srvs, n - 1)
           ann == srvs[n].Annotations
           byRegion == IF "region" \in DOMAIN ann
                       THEN MapAppend(m, ann["region"], n)
                       ELSE m
       IN MapAppend(byRegion, AllGroupName, n)

\* lbType == "RoundRobin" gives RoundRobinLB, anything else ByOrderLB.
LBTypeOf(lbType) == IF lbType = "RoundRobin" THEN RoundRobinLB ELSE ByOrderLB

\* The IndexRoundRobin of a new manager. Under ByOrderLB usm.rrLB stays nil and
\* is never read; the record then only fills the variable.
NewIndexRoundRobin(max) == [current |-> 0, max |-> max]

(* -------------------------- pure functions ---------------------------- *)

\* UpstreamSelector without the test of the region map: the region group is
\* looked up even when no region map is configured.
UpstreamSelector_NoNilCheck(meta) ==
  IF meta.Region \in DOMAIN serversRegionMap
  THEN [err |-> Nil, servers |-> serversRegionMap[meta.Region]]
  ELSE [err |-> Nil, servers |-> MapGet(serversRegionMap, AllGroupName)]

\* UpstreamSelector without the region lookup: always the "all" group.
UpstreamSelector_AlwaysAll(meta) ==
  [err |-> Nil, servers |-> MapGet(serversRegionMap, AllGroupName)]

\* UpstreamSelector: (error, ServersView)
UpstreamSelector(meta) ==
  IF regionMapNil
  THEN [err |-> Nil, servers |-> MapGet(serversRegionMap, AllGroupName)]
  ELSE IF meta.Region \in DOMAIN serversRegionMap
       THEN [err |-> Nil, servers |-> serversRegionMap[meta.Region]]
       ELSE [err |-> Nil, servers |-> MapGet(serversRegionMap, AllGroupName)]

\* buildUpstreamMsg that appends its question to those CopyTo copied.
buildUpstreamMsg_AppendQuestion(originReq, q) ==
  [originReq EXCEPT !.Question =
     Append(@, [Name |-> q.Name, Qtype |-> q.Type, Qclass |-> originReq.Question[1].Qclass])]

\* buildUpstreamMsg: a copy of the origin message with its question replaced.
buildUpstreamMsg(originReq, q) ==
  [originReq EXCEPT !.Question =
     <<[Name |-> q.Name, Qtype |-> q.Type, Qclass |-> originReq.Question[1].Qclass]>>]

\* The deadline test with "not after" for "before": the deadline itself still
\* admits an attempt.
BeforeDeadline_NotAfter(t) == currentTime[t] <= startTime[t] + Timeout

\* currentTime.Before(startTime.Add(usm.Timeout))
BeforeDeadline(t) == currentTime[t] < startTime[t] + Timeout

\* The wraps with ">" for ">=": a counter equal to the bound is not reduced.
GetWrap_OffByOne(r) == IF r.current > r.max THEN r.current % r.max ELSE r.current
LimitedWrap_OffByOne(current, max) == IF current > max THEN current % max ELSE current

\* LimitedWrap that wraps to one past the remainder.
LimitedWrap_SkipsOne(current, max) ==
  IF current >= max THEN (current % max) + 1 ELSE current

\* The test-and-wrap of Get and of LimitedGet: the counter after
\* "if r.current >= max { r.current = r.current % max }", for max # 0.
GetWrap(r) == IF r.current >= r.max THEN r.current % r.max ELSE r.current
LimitedWrap(current, max) == IF current >= max THEN current % max ELSE current

\* The integer division of the wrap panics when it runs with a zero divisor.
WrapPanics(current, max) == current >= max /\ max = 0

\* metrics.IncrCounterWithLabels(name, 1, {remoteHost})
IncrCounter(counter, host) == [counter EXCEPT ![host] = @ + 1]

(* ------------------------------ initial ------------------------------- *)

RequestRegions == {"eu", "zz"}

\* The configured Timeout, in ticks of the clock: none at all, or one tick.
TimeoutChoices == {0, 1}

\* What client.Exchange may give back: an error (and no message), or a message
\* with or without an answer record.
Outcomes ==
  {[err |-> TRUE, answer |-> <<>>],
   [err |-> FALSE, answer |-> <<>>],
   [err |-> FALSE, answer |-> <<AnswerRR>>]}

\* Upstream servers of which each may give back anything at every exchange.
AnyUpstream == [a \in Addresses |-> Outcomes]

\* EngineQuery{Queries, Result, dnsMsg}
EngineQuery(queries, res, msg) == [Queries |-> queries, Result |-> res, dnsMsg |-> msg]

NotReturned == [eq |-> Nil, err |-> Nil]

\* The manager NewUpstreamsManager returns, but for its counter.
InitManager(serverLists, lbTypes, nilMaps, telemetry, timeouts) ==
  /\ Servers \in serverLists
  /\ \E lbType \in lbTypes : LBType = LBTypeOf(lbType)
  /\ regionMapNil \in nilMaps
  /\ serversRegionMap = RegionGroups(Servers, Len(Servers))
  /\ Timeout \in timeouts
  /\ TelemetryEnabled \in telemetry
  /\ mutex = NoTask
  /\ now = 0
  /\ request_count = [a \in Addresses |-> 0]
  /\ request_failed = [a \in Addresses |-> 0]
  /\ rrHist = <<>>

\* The tasks in `active` have each been handed a request; the other tasks
\* never get one.
InitTasksOf(active, candLists, results, msgs) ==
  /\ query \in [Tasks -> {EngineQuery(c, r, d) :
                            c \in candLists \cup {<<>>}, r \in results, d \in msgs}]
  /\ \A t \in active : query[t].Queries \in candLists
  /\ \A t \in Tasks \ active : query[t].Queries = <<>>
  /\ metadata \in [Tasks -> [Region : RequestRegions]]
  /\ \A t \in Tasks \ active : metadata[t].Region = "zz"
  /\ qi = [t \in Tasks |-> 0]
  /\ upsRequest = [t \in Tasks |-> OriginMsg]
  /\ startTime = [t \in Tasks |-> 0]
  /\ currentTime = [t \in Tasks |-> 0]
  /\ sampleGap = [t \in Tasks |-> 0]
  /\ servers = [t \in Tasks |-> <<>>]
  /\ i = [t \in Tasks |-> 0]
  /\ result = [t \in Tasks |-> 0]
  /\ remoteHost = [t \in Tasks |-> ""]
  /\ ret = [t \in Tasks |-> NotReturned]
  /\ sent = [t \in Tasks |-> <<>>]
  /\ selects = [t \in Tasks |-> 0]

\* The requests the filtering engines passed: Result is ALLOWED, and the
\* message is the client's.
InitTasks(active, candLists) == InitTasksOf(active, candLists, {ALLOWED}, {OriginMsg})

\* The state once NewUpstreamsManager has returned and Apply has been called
\* in each task of `active`.
InitWith(serverLists, lbTypes, nilMaps, telemetry, timeouts, active, candLists) ==
  /\ InitManager(serverLists, lbTypes, nilMaps, telemetry, timeouts)
  /\ upstream = AnyUpstream
  /\ rr = NewIndexRoundRobin(Len(Servers))
  /\ pc = [t \in Tasks |-> IF t \in active THEN "apply" ELSE "idle"]
  /\ InitTasks(active, candLists)

AllServerLists == UNION {ServerLists(n) : n \in 0..MaxServers}

(* ------------------------------- Apply -------------------------------- *)

\* EmptyInput that also refuses a query the engines denied.
EmptyInput_OrDenied(q) == Len(q.Queries) <= 0 \/ q.Result = DENIED

\* Apply, line 79: len(query.Queries) <= 0
EmptyInput(q) == Len(q.Queries) <= 0

\* ApplyEmpty with the input test moved after a first LimitedGet: the counter
\* has advanced when the error is returned.
ApplyEmpty_AfterGet(t) ==
  /\ pc[t] = "apply"
  /\ EmptyInput(query[t])
  /\ rr' = [rr EXCEPT !.current = @ + 1]
  /\ ret' = [ret EXCEPT ![t] = [eq |-> Nil, err |-> Ref(ErrEmptyQuery)]]
  /\ pc' = [pc EXCEPT ![t] = "done"]
  /\ UNCHANGED <<cfgVars, envVars, mutex, request_count, request_failed, rrHist, now, query,
                 metadata, qi, upsRequest, startTime, currentTime, sampleGap, servers, i,
                 result, remoteHost, sent, selects>>

\* Apply, lines 77-81: an empty candidate list is refused at once.
ApplyEmpty(t) ==
  /\ pc[t] = "apply"
  /\ EmptyInput(query[t])
  /\ ret' = [ret EXCEPT ![t] = [eq |-> Nil, err |-> Ref(ErrEmptyQuery)]]
  /\ pc' = [pc EXCEPT ![t] = "done"]
  /\ UNCHANGED <<cfgVars, envVars, sharedVars, now, query, metadata, qi, upsRequest, startTime,
                 currentTime, sampleGap, servers, i, result, remoteHost, sent, selects>>

\* Apply, line 86: the range loop starts at the first candidate.
ApplyBegin(t) ==
  /\ pc[t] = "apply"
  /\ ~EmptyInput(query[t])
  /\ qi' = [qi EXCEPT ![t] = 1]
  /\ pc' = [pc EXCEPT ![t] = "forward"]
  /\ UNCHANGED <<cfgVars, envVars, sharedVars, now, query, metadata, upsRequest, startTime,
                 currentTime, sampleGap, servers, i, result, remoteHost, ret, sent, selects>>

\* ForwardBegin with the selection hoisted out of the candidate loop: the
\* lookup is made for the first candidate only.
ForwardBegin_SelectOnce(t) ==
  /\ pc[t] = "forward"
  /\ LET sel == UpstreamSelector(metadata[t])
     IN /\ upsRequest' = [upsRequest EXCEPT ![t] =
                            buildUpstreamMsg(query[t].dnsMsg, query[t].Queries[qi[t]])]
        /\ startTime' = [startTime EXCEPT ![t] = now]
        /\ selects' = [selects EXCEPT ![t] = IF qi[t] = 1 THEN @ + 1 ELSE @]
        /\ servers' = [servers EXCEPT ![t] = IF qi[t] = 1 THEN sel.servers ELSE @]
        /\ pc' = [pc EXCEPT ![t] = "sample"]
  /\ UNCHANGED <<cfgVars, envVars, sharedVars, now, query, metadata, qi, currentTime, sampleGap,
                 i, result, remoteHost, ret, sent>>

\* ForwardBegin with one budget for the whole request: startTime is read for
\* the first candidate alone.
ForwardBegin_SharedBudget(t) ==
  /\ pc[t] = "forward"
  /\ LET sel == UpstreamSelector(metadata[t])
     IN /\ upsRequest' = [upsRequest EXCEPT ![t] =
                            buildUpstreamMsg(query[t].dnsMsg, query[t].Queries[qi[t]])]
        /\ startTime' = [startTime EXCEPT ![t] = IF qi[t] = 1 THEN now ELSE @]
        /\ selects' = [selects EXCEPT ![t] = @ + 1]
        /\ servers' = [servers EXCEPT ![t] = sel.servers]
        /\ pc' = [pc EXCEPT ![t] = IF sel.err # Nil THEN "failed" ELSE "sample"]
  /\ UNCHANGED <<cfgVars, envVars, sharedVars, now, query, metadata, qi, currentTime, sampleGap,
                 i, result, remoteHost, ret, sent>>

\* Apply, line 88, and forwardRequest, lines 118-127: build the message, read
\* the clock, select the servers. UpstreamSelector's error is always nil.
ForwardBegin(t) ==
  /\ pc[t] = "forward"
  /\ LET sel == UpstreamSelector(metadata[t])
     IN /\ upsRequest' = [upsRequest EXCEPT ![t] =
                            buildUpstreamMsg(query[t].dnsMsg, query[t].Queries[qi[t]])]
        /\ startTime' = [startTime EXCEPT ![t] = now]
        /\ selects' = [selects EXCEPT ![t] = @ + 1]
        /\ servers' = [servers EXCEPT ![t] = sel.servers]
        /\ pc' = [pc EXCEPT ![t] = IF sel.err # Nil THEN "failed" ELSE "sample"]
  /\ UNCHANGED <<cfgVars, envVars, sharedVars, now, query, metadata, qi, currentTime, sampleGap,
                 i, result, remoteHost, ret, sent>>

\* forwardRequest, lines 129-130: the first read of currentTime, i := 0.
FirstSample(t) ==
  /\ pc[t] = "sample"
  /\ currentTime' = [currentTime EXCEPT ![t] = now]
  /\ sampleGap' = [sampleGap EXCEPT ![t] = now - startTime[t]]
  /\ i' = [i EXCEPT ![t] = 0]
  /\ pc' = [pc EXCEPT ![t] = "loop"]
  /\ UNCHANGED <<cfgVars, envVars, sharedVars, now, query, metadata, qi, upsRequest, startTime,
                 servers, result, remoteHost, ret, sent, selects>>

\* forwardRequest returned nil (lines 126, 162): Apply, lines 92-101, goes on
\* to the next candidate, or fails when there is none.
NoResponse(t) ==
  IF qi[t] < Len(query[t].Queries)
  THEN /\ qi' = [qi EXCEPT ![t] = @ + 1]
       /\ pc' = [pc EXCEPT ![t] = "forward"]
       /\ ret' = ret
  ELSE /\ ret' = [ret EXCEPT ![t] = [eq |-> Nil, err |-> Ref(ErrNoResponse)]]
       /\ pc' = [pc EXCEPT ![t] = "done"]
       /\ qi' = qi

\* forwardRequest, line 130: the loop condition fails, the loop ends.
LoopExit(t) ==
  /\ pc[t] \in {"loop", "failed"}
  /\ pc[t] = "loop" => ~BeforeDeadline(t)
  /\ NoResponse(t)
  /\ UNCHANGED <<cfgVars, envVars, sharedVars, now, query, metadata, upsRequest, startTime,
                 currentTime, sampleGap, servers, i, result, remoteHost, sent, selects>>

(* --------------------------- forwardRequest --------------------------- *)

\* servers[n].Address for a 0-based n.
HostAt(view, n) == Servers[view[n + 1]].Address
InRange(view, n) == n >= 0 /\ n < Len(view)

\* forwardRequest, lines 130 and 134, under ByOrderLB: the loop condition
\* holds and servers[i] is read; an index past the view panics.
PickByOrder(t) ==
  /\ pc[t] = "loop"
  /\ BeforeDeadline(t)
  /\ LBType # RoundRobinLB
  /\ IF InRange(servers[t], i[t])
     THEN /\ i[t] < MaxIter
          /\ remoteHost' = [remoteHost EXCEPT ![t] = HostAt(servers[t], i[t])]
          /\ pc' = [pc EXCEPT ![t] = "exchange"]
     ELSE /\ pc' = [pc EXCEPT ![t] = "panic"]
          /\ remoteHost' = remoteHost
  /\ UNCHANGED <<cfgVars, envVars, sharedVars, now, query, metadata, qi, upsRequest, startTime,
                 currentTime, sampleGap, servers, i, result, ret, sent, selects>>

\* A Lock that excludes nobody.
MutexFree_NoExclusion(t) == TRUE

\* r.Lock(): taken only when no task holds it.
MutexFree(t) == mutex = NoTask

\* forwardRequest, lines 130-132, and LimitedGet, line 205: the loop condition
\* holds under RoundRobinLB, LimitedGet(len(servers)) is called and locks.
RRLock(t) ==
  /\ pc[t] = "loop"
  /\ BeforeDeadline(t)
  /\ LBType = RoundRobinLB
  /\ i[t] < MaxIter
  /\ MutexFree(t)
  /\ mutex' = t
  /\ pc' = [pc EXCEPT ![t] = "rrWrap"]
  /\ UNCHANGED <<cfgVars, envVars, rr, request_count, request_failed, rrHist, now, query, metadata,
                 qi, upsRequest, startTime, currentTime, sampleGap, servers, i, result,
                 remoteHost, ret, sent, selects>>

\* LimitedGet, lines 208-210; a zero max panics in the division, and the
\* deferred Unlock releases the mutex.
RRWrap(t) ==
  /\ pc[t] = "rrWrap"
  /\ LET max == Len(servers[t])
     IN IF WrapPanics(rr.current, max)
        THEN /\ pc' = [pc EXCEPT ![t] = "panic"]
             /\ mutex' = IF mutex = t THEN NoTask ELSE mutex
             /\ rr' = rr
        ELSE /\ rr' = [rr EXCEPT !.current = LimitedWrap(rr.current, max)]
             /\ pc' = [pc EXCEPT ![t] = "rrRead"]
             /\ mutex' = mutex
  /\ UNCHANGED <<cfgVars, envVars, request_count, request_failed, rrHist, now, query, metadata,
                 qi, upsRequest, startTime, currentTime, sampleGap, servers, i, result,
                 remoteHost, ret, sent, selects>>

\* LimitedGet, line 212: result := r.current
RRRead(t) ==
  /\ pc[t] = "rrRead"
  /\ result' = [result EXCEPT ![t] = rr.current]
  /\ rrHist' = Append(rrHist, [task |-> t, bound |-> Len(servers[t]), ret |-> rr.current])
  /\ pc' = [pc EXCEPT ![t] = "rrInc"]
  /\ UNCHANGED <<cfgVars, envVars, rr, mutex, request_count, request_failed, now, query, metadata,
                 qi, upsRequest, startTime, currentTime, sampleGap, servers, i,
                 remoteHost, ret, sent, selects>>

\* RRInc without the increment: the counter stays where it is.
RRInc_NoAdvance(t) ==
  /\ pc[t] = "rrInc"
  /\ rr' = rr
  /\ pc' = [pc EXCEPT ![t] = "rrUnlock"]
  /\ UNCHANGED <<cfgVars, envVars, mutex, request_count, request_failed, rrHist, now, query,
                 metadata, qi, upsRequest, startTime, currentTime, sampleGap, servers, i,
                 result, remoteHost, ret, sent, selects>>

\* LimitedGet, line 213: r.current++
RRInc(t) ==
  /\ pc[t] = "rrInc"
  /\ rr' = [rr EXCEPT !.current = @ + 1]
  /\ pc' = [pc EXCEPT ![t] = "rrUnlock"]
  /\ UNCHANGED <<cfgVars, envVars, mutex, request_count, request_failed, rrHist, now, query,
                 metadata, qi, upsRequest, startTime, currentTime, sampleGap, servers, i,
                 result, remoteHost, ret, sent, selects>>

\* LimitedGet, lines 214 and 206 (the deferred Unlock), and forwardRequest,
\* line 132: servers[result].Address; an index past the view panics.
RRUnlock(t) ==
  /\ pc[t] = "rrUnlock"
  /\ mutex' = IF mutex = t THEN NoTask ELSE mutex
  /\ IF InRange(servers[t], result[t])
     THEN /\ remoteHost' = [remoteHost EXCEPT ![t] = HostAt(servers[t], result[t])]
          /\ pc' = [pc EXCEPT ![t] = "exchange"]
     ELSE /\ pc' = [pc EXCEPT ![t] = "panic"]
          /\ remoteHost' = remoteHost
  /\ UNCHANGED <<cfgVars, envVars, rr, request_count, request_failed, rrHist, now, query, metadata,
                 qi, upsRequest, startTime, currentTime, sampleGap, servers, i, result,
                 ret, sent, selects>>

\* The message an upstream server sends back to req.
Response(req, answer) == [Question |-> req.Question, Answer |-> answer]

\* One completed exchange, as kept in sent: the candidate it carried, the
\* question sent, the server it went to, and the response when that held an
\* answer record (Nil for an error and for a response without one).
Exchange(t, o) ==
  [cand |-> qi[t], question |-> upsRequest[t].Question[1], host |-> remoteHost[t],
   resp |-> IF ~o.err /\ o.answer # <<>>
            THEN Ref(Response(upsRequest[t], o.answer)) ELSE Nil]

\* Returns without the test of the answer records: any response is returned.
Returns_AnyResponse(o) == ~o.err

\* Returns with the return left out: the loop goes on after an answer.
Returns_Never(o) == FALSE

\* forwardRequest, lines 146 and 156: "err != nil" is false and
\* "len(resp.Answer) > 0" is true, so resp is returned.
Returns(o) == ~o.err /\ Len(o.answer) > 0

\* Telemetry without the test of TelemetryEnabled: every attempt is counted.
Telemetry_AlwaysOn(t, o) ==
  /\ request_count' = IncrCounter(request_count, remoteHost[t])
  /\ request_failed' = IF o.err THEN IncrCounter(request_failed, remoteHost[t])
                                 ELSE request_failed

\* Telemetry with request_failed counted for every attempt that is not
\* returned: an error, or a response without an answer record.
Telemetry_FailedOnEmpty(t, o) ==
  IF TelemetryEnabled
  THEN /\ request_count' = IncrCounter(request_count, remoteHost[t])
       /\ request_failed' = IF ~Returns(o) THEN IncrCounter(request_failed, remoteHost[t])
                                            ELSE request_failed
  ELSE UNCHANGED <<request_count, request_failed>>

\* forwardRequest, lines 137-144 and 147-154: the counters of one attempt.
Telemetry(t, o) ==
  IF TelemetryEnabled
  THEN /\ request_count' = IncrCounter(request_count, remoteHost[t])
       /\ request_failed' = IF o.err THEN IncrCounter(request_failed, remoteHost[t])
                                      ELSE request_failed
  ELSE UNCHANGED <<request_count, request_failed>>

\* forwardRequest, lines 159 and 130: read the clock, i++.
NextIteration(t) ==
  /\ currentTime' = [currentTime EXCEPT ![t] = now]
  /\ sampleGap' = [sampleGap EXCEPT ![t] = now - currentTime[t]]
  /\ i' = [i EXCEPT ![t] = @ + 1]
  /\ pc' = [pc EXCEPT ![t] = "loop"]
  /\ ret' = ret

\* Apply, lines 92-98, on a non-nil resp.
ApplyReturn(t, resp) ==
  /\ ret' = [ret EXCEPT ![t] =
               [eq |-> Ref(EngineQuery(query[t].Queries, ALLOWED, resp)), err |-> Nil]]
  /\ pc' = [pc EXCEPT ![t] = "done"]
  /\ UNCHANGED <<currentTime, sampleGap, i>>

\* forwardRequest, lines 136-159: client.Exchange comes back; the attempt is
\* counted; a response with an answer record is returned, and Apply returns
\* it; anything else goes round the loop.
ExchangeDone(t) ==
  /\ pc[t] = "exchange"
  /\ \E o \in upstream[remoteHost[t]] :
       /\ sent' = [sent EXCEPT ![t] = Append(@, Exchange(t, o))]
       /\ Telemetry(t, o)
       /\ IF Returns(o)
          THEN ApplyReturn(t, Response(upsRequest[t], o.answer))
          ELSE NextIteration(t)
  /\ UNCHANGED <<cfgVars, envVars, rr, mutex, rrHist, now, query, metadata, qi, upsRequest,
                 startTime, servers, result, remoteHost, selects>>

\* The places where a task reads the clock next: time.Now() of lines 118, 129
\* and 159.
ReadsClock(t) == pc[t] \in {"forward", "sample", "exchange"}

\* The wall clock advances. Only time.Now() observes it, so a tick is taken
\* while some task is about to read the clock: a tick at any other moment
\* shows the same readings as one delayed until then.
Tick ==
  /\ now < MaxTime
  /\ \E t \in Tasks : ReadsClock(t)
  /\ now' = now + 1
  /\ UNCHANGED <<cfgVars, envVars, sharedVars, taskVars>>

(* --------------------------- specifications --------------------------- *)

TaskStep(t) ==
  \/ ApplyEmpty(t)
  \/ ApplyBegin(t)
  \/ ForwardBegin(t)
  \/ FirstSample(t)
  \/ LoopExit(t)
  \/ PickByOrder(t)
  \/ RRLock(t)
  \/ RRWrap(t)
  \/ RRRead(t)
  \/ RRInc(t)
  \/ RRUnlock(t)
  \/ ExchangeDone(t)

Next == Tick \/ \E t \in Tasks : TaskStep(t)

\* One request, under every configuration.
Init ==
  InitWith(AllServerLists, {"RoundRobin", "ByOrder"}, BOOLEAN, BOOLEAN,
           TimeoutChoices, {"t1"}, CandidateLists)

Spec == Init /\ [][Next]_vars

(* ------------------ concurrent requests, RoundRobin ------------------- *)

\* Two servers, the first in region "eu": the view of a request from "eu" has
\* one server, the view of any other request has two.
TwoServers ==
  <<UpstreamServer(1, RegionAnnotation("eu")), UpstreamServer(2, NoAnnotations)>>

RRStep(t) ==
  \/ ApplyBegin(t)
  \/ ForwardBegin(t)
  \/ FirstSample(t)
  \/ LoopExit(t)
  \/ RRLock(t)
  \/ RRWrap(t)
  \/ RRRead(t)
  \/ RRInc(t)
  \/ RRUnlock(t)
  \/ ExchangeDone(t)

NextConc == Tick \/ \E t \in Tasks : RRStep(t)

\* Every task has a request with one candidate.
InitConc ==
  InitWith({TwoServers}, {"RoundRobin"}, {FALSE}, {FALSE}, {1}, Tasks, {<<QueryA>>})

SpecConc == InitConc /\ [][NextConc]_vars

(* -------------------- a standalone IndexRoundRobin -------------------- *)

\* The caller of the standalone counter.
Caller == "t1"

\* Get, line 192: r.Lock(), by a task that calls Get.
GetLock(t) ==
  /\ pc[t] = "caller"
  /\ Len(rrHist) < MaxCalls
  /\ MutexFree(t)
  /\ mutex' = t
  /\ pc' = [pc EXCEPT ![t] = "getWrap"]
  /\ UNCHANGED <<cfgVars, envVars, rr, request_count, request_failed, rrHist, now, query, metadata,
                 qi, upsRequest, startTime, currentTime, sampleGap, servers, i, result,
                 remoteHost, ret, sent, selects>>

\* Get, lines 195-197; a zero max panics in the division, and the deferred
\* Unlock releases the mutex.
GetWrapStep(t) ==
  /\ pc[t] = "getWrap"
  /\ IF WrapPanics(rr.current, rr.max)
     THEN /\ pc' = [pc EXCEPT ![t] = "panic"]
          /\ mutex' = IF mutex = t THEN NoTask ELSE mutex
          /\ rr' = rr
     ELSE /\ rr' = [rr EXCEPT !.current = GetWrap(rr)]
          /\ pc' = [pc EXCEPT ![t] = "getRead"]
          /\ mutex' = mutex
  /\ UNCHANGED <<cfgVars, envVars, request_count, request_failed, rrHist, now, query, metadata,
                 qi, upsRequest, startTime, currentTime, sampleGap, servers, i, result,
                 remoteHost, ret, sent, selects>>

\* Get, line 199: result := r.current
GetRead(t) ==
  /\ pc[t] = "getRead"
  /\ result' = [result EXCEPT ![t] = rr.current]
  /\ rrHist' = Append(rrHist, [task |-> t, bound |-> rr.max, ret |-> rr.current])
  /\ pc' = [pc EXCEPT ![t] = "getInc"]
  /\ UNCHANGED <<cfgVars, envVars, rr, mutex, request_count, request_failed, now, query, metadata,
                 qi, upsRequest, startTime, currentTime, sampleGap, servers, i,
                 remoteHost, ret, sent, selects>>

\* Get, line 200: r.current++
GetInc(t) ==
  /\ pc[t] = "getInc"
  /\ rr' = [rr EXCEPT !.current = @ + 1]
  /\ pc' = [pc EXCEPT ![t] = "getUnlock"]
  /\ UNCHANGED <<cfgVars, envVars, mutex, request_count, request_failed, rrHist, now, query,
                 metadata, qi, upsRequest, startTime, currentTime, sampleGap, servers, i,
                 result, remoteHost, ret, sent, selects>>

\* Get, lines 201 and 193: return result, the deferred Unlock.
GetUnlock(t) ==
  /\ pc[t] = "getUnlock"
  /\ mutex' = IF mutex = t THEN NoTask ELSE mutex
  /\ pc' = [pc EXCEPT ![t] = "caller"]
  /\ UNCHANGED <<cfgVars, envVars, rr, request_count, request_failed, rrHist, now, query, metadata,
                 qi, upsRequest, startTime, currentTime, sampleGap, servers, i, result,
                 remoteHost, ret, sent, selects>>

GetStep(t) ==
  \/ GetLock(t)
  \/ GetWrapStep(t)
  \/ GetRead(t)
  \/ GetInc(t)
  \/ GetUnlock(t)

\* LimitedGet, lines 204-215, called by one caller: the whole method.
LimitedGetCall(max) ==
  /\ pc[Caller] = "caller"
  /\ Len(rrHist) < MaxLimitedCalls
  /\ IF WrapPanics(rr.current, max)
     THEN /\ pc' = [pc EXCEPT ![Caller] = "panic"]
          /\ UNCHANGED <<rr, rrHist, result>>
     ELSE /\ rr' = [rr EXCEPT !.current = LimitedWrap(rr.current, max) + 1]
          /\ result' = [result EXCEPT ![Caller] = LimitedWrap(rr.current, max)]
          /\ rrHist' = Append(rrHist,
                           [task |-> Caller, bound |-> max, ret |-> LimitedWrap(rr.current, max)])
          /\ pc' = pc
  /\ UNCHANGED <<cfgVars, envVars, mutex, request_count, request_failed, now, query, metadata, qi,
                 upsRequest, startTime, currentTime, sampleGap, servers, i, remoteHost,
                 ret, sent, selects>>

\* &IndexRoundRobin{current: 0, max: M}, M >= 1, in the hands of tasks that
\* call its methods; no request is being handled.
InitCounter ==
  /\ InitManager({<<>>}, {"RoundRobin"}, {FALSE}, {FALSE}, {0})
  /\ upstream = AnyUpstream
  /\ \E M \in 1..MaxBound : rr = NewIndexRoundRobin(M)
  /\ pc = [t \in Tasks |-> "caller"]
  /\ InitTasks({}, {})

\* Every task calls Get, again and again.
NextGet == \E t \in Tasks : GetStep(t)

SpecGet == InitCounter /\ [][NextGet]_vars

\* One task calls LimitedGet with one bound after the other.
NextLimitedGet == \E max \in 0..MaxBound : LimitedGetCall(max)

SpecLimitedGet == InitCounter /\ [][NextLimitedGet]_vars

\* The concurrent users of the counter: request tasks under RoundRobinLB,
\* which call LimitedGet, or tasks that call Get.
InitUsers == InitConc \/ InitCounter

NextCounter == NextConc \/ NextGet

SpecCounter == InitUsers /\ [][NextCounter]_vars

(* ------------------------------ claims -------------------------------- *)

\* An exchange of task t is in flight, or the task is on its way to one.
InIteration(t) == pc[t] \in {"rrWrap", "rrRead", "rrInc", "rrUnlock", "exchange"}

\* Task t has an exchange in flight.
InFlight(t) == pc[t] = "exchange"

Returned(t) == pc[t] = "done"
Succeeded(t) == Returned(t) /\ ret[t].err = Nil
Failed(t) == Returned(t) /\ ret[t].err # Nil

\* C1: within one Apply call the exchanges carry the candidates in the order
\* of EngineQuery.Queries (an exchange for a later candidate never precedes one
\* for an earlier candidate, and each carries the question of its candidate),
\* and an exchange that came back with an answer record is the last one: no
\* exchange is completed or in flight after it.
C1_CandidateOrder ==
  \A t \in Tasks :
    LET s == sent[t] IN
      /\ \A k \in 1..Len(s) :
           /\ s[k].cand \in 1..Len(query[t].Queries)
           /\ s[k].question.Name = query[t].Queries[s[k].cand].Name
           /\ s[k].question.Qtype = query[t].Queries[s[k].cand].Type
           /\ k < Len(s) => s[k].cand <= s[k + 1].cand
           /\ s[k].resp # Nil => k = Len(s) /\ Returned(t)
           /\ s[k].cand <= qi[t]
      /\ InFlight(t) => \A k \in 1..Len(s) : s[k].resp = Nil

\* C1 witness: a call has sent its first candidate at least once without an
\* answer, gone on to the second, and got an answer for it.
C1_Witness ==
  \E t \in Tasks :
    /\ Succeeded(t)
    /\ Len(sent[t]) >= 2
    /\ sent[t][1].cand = 1
    /\ sent[t][Len(sent[t])].cand = 2

\* C2: Apply returns success only with the response of an exchange of that
\* call that held an answer record, that exchange being the only one with an
\* answer record; it returns an error only for an empty candidate list, or
\* when forwardRequest ran for every candidate and no exchange came back with
\* an answer record.
C2_FailuresAbsorbed ==
  \A t \in Tasks :
    LET s == sent[t]
        n == Len(query[t].Queries)
    IN /\ Returned(t) <=> ret[t] # NotReturned
       /\ Succeeded(t) =>
            /\ s # <<>>
            /\ s[Len(s)].resp # Nil
            /\ \A k \in 1..(Len(s) - 1) : s[k].resp = Nil
            /\ ret[t].eq # Nil
            /\ Ref(ret[t].eq[1].dnsMsg) = s[Len(s)].resp
            /\ Len(ret[t].eq[1].dnsMsg.Answer) >= 1
       /\ Failed(t) =>
            /\ ret[t].eq = Nil
            /\ \/ n = 0 /\ ret[t].err = Ref(ErrEmptyQuery)
               \/ /\ n > 0
                  /\ ret[t].err = Ref(ErrNoResponse)
                  /\ selects[t] = n
                  /\ \A k \in 1..Len(s) : s[k].resp = Nil

\* C2 witness: a call that returned the answer of its last exchange after an
\* earlier exchange that failed or came back without an answer record.
C2_Witness ==
  \E t \in Tasks : Succeeded(t) /\ Len(sent[t]) >= 2

\* The failure side of C2: a call with two candidates that failed after some
\* exchanges.
C2_WitnessFailure ==
  \E t \in Tasks :
    /\ Failed(t)
    /\ Len(query[t].Queries) >= 2
    /\ Len(sent[t]) >= 2

\* C3: the step by which Apply leaves its entry with an empty candidate list
\* returns the error at once, and changes neither the round-robin counter nor
\* a telemetry counter nor the record of the exchanges; a call with an empty
\* candidate list never has an exchange.
C3_EmptyFailsAtOnce ==
  [][\A t \in Tasks :
       (pc[t] = "apply" /\ query[t].Queries = <<>> /\ pc'[t] # pc[t]) =>
         /\ pc'[t] = "done"
         /\ ret'[t] = [eq |-> Nil, err |-> Ref(ErrEmptyQuery)]
         /\ rr' = rr
         /\ rrHist' = rrHist
         /\ request_count' = request_count
         /\ request_failed' = request_failed
         /\ sent' = sent
         /\ selects' = selects]_vars

\* C3 witness: a call with an empty candidate list has returned.
C3_Witness ==
  \E t \in Tasks : query[t].Queries = <<>> /\ Failed(t) /\ sent[t] = <<>>

\* The addresses of the servers that carry the region annotation r.
RegionAddresses(r) ==
  {Servers[n].Address : n \in {m \in 1..Len(Servers) :
      /\ "region" \in DOMAIN Servers[m].Annotations
      /\ Servers[m].Annotations["region"] = r}}

\* The addresses of all the configured servers: the "all" group.
AllAddresses == {Servers[n].Address : n \in 1..Len(Servers)}

\* The servers task t has contacted or is contacting.
Contacted(t) ==
  {sent[t][k].host : k \in 1..Len(sent[t])} \cup
  (IF InFlight(t) THEN {remoteHost[t]} ELSE {})

\* The region of the request names a group: some server carries it.
GroupExists(r) == RegionAddresses(r) # {}

\* C4, as claimed: every server contacted for a request whose region names a
\* group belongs to that group, and every server contacted for any other
\* request belongs to the "all" group.
C4_Original ==
  \A t \in Tasks :
    IF GroupExists(metadata[t].Region)
    THEN Contacted(t) \subseteq RegionAddresses(metadata[t].Region)
    ELSE Contacted(t) \subseteq AllAddresses

\* C4, amended: when a region map is configured, every server contacted for a
\* request whose region names a group belongs to that group; every server
\* contacted for any other request, and every server contacted when no region
\* map is configured, belongs to the "all" group.
C4_RegionScoped ==
  \A t \in Tasks :
    IF ~regionMapNil /\ GroupExists(metadata[t].Region)
    THEN Contacted(t) \subseteq RegionAddresses(metadata[t].Region)
    ELSE Contacted(t) \subseteq AllAddresses

\* C4 witness: with a region map, a request from "eu" has contacted a server
\* of the group "eu" while a server outside that group is configured.
C4_Witness ==
  \E t \in Tasks :
    /\ ~regionMapNil
    /\ metadata[t].Region = "eu"
    /\ Contacted(t) # {}
    /\ Contacted(t) \subseteq RegionAddresses("eu")
    /\ AllAddresses \ RegionAddresses("eu") # {}

\* The "all" group as NewUpstreamsManager leaves it: every server, in order.
AllView == [n \in 1..Len(Servers) |-> n]

\* C5: UpstreamSelector never returns an error, and with no region map it
\* returns the "all" group for every region: as a function, and as the
\* servers of every task that has selected.
C5_NilMapSelectsAll ==
  /\ \A r \in RequestRegions \cup {AllGroupName} :
       /\ UpstreamSelector([Region |-> r]).err = Nil
       /\ regionMapNil => UpstreamSelector([Region |-> r]).servers = AllView
  /\ \A t \in Tasks :
       /\ pc[t] # "failed"
       /\ (regionMapNil /\ selects[t] > 0) => servers[t] = AllView

\* C5 witness: no region map, a request from "eu", a group "eu" that is not
\* the whole server list, and the selection made.
C5_Witness ==
  \E t \in Tasks :
    /\ regionMapNil
    /\ metadata[t].Region = "eu"
    /\ GroupExists("eu")
    /\ RegionAddresses("eu") # AllAddresses
    /\ selects[t] > 0
    /\ servers[t] = AllView

\* The number of candidates for which task t has entered forwardRequest.
Forwarded(t) ==
  IF pc[t] \in {"apply", "idle", "caller"} THEN 0
  ELSE IF pc[t] = "forward" THEN qi[t] - 1
  ELSE qi[t]

\* C6, as claimed: an Apply call makes one server-set lookup, however many
\* candidates it tries.
C6_Original ==
  \A t \in Tasks : Forwarded(t) >= 1 => selects[t] = 1

\* C6, amended: an Apply call makes one server-set lookup for each candidate
\* it forwards, and every lookup of the call gives the same server set.
C6_SelectPerCandidate ==
  \A t \in Tasks :
    /\ selects[t] = Forwarded(t)
    /\ selects[t] >= 1 => servers[t] = UpstreamSelector(metadata[t]).servers

\* C6 witness: a call that has forwarded two candidates and made two lookups.
C6_Witness ==
  \E t \in Tasks : Forwarded(t) = 2 /\ selects[t] = 2 /\ Returned(t)

\* C7: on a counter created with current = 0 and max = M >= 1, the n-th call
\* of Get (counting from 1, in the order the calls take the lock) returns
\* (n - 1) mod M, a value below M, and no call panics.
C7_GetSequence ==
  /\ \A t \in Tasks : pc[t] # "panic"
  /\ \A n \in 1..Len(rrHist) :
       /\ rrHist[n].ret = (n - 1) % rr.max
       /\ rrHist[n].ret < rr.max

\* C7 witness: M >= 2 and the calls have gone round the indices twice.
C7_Witness ==
  /\ \A t \in Tasks : pc[t] = "caller"
  /\ rr.max >= 2
  /\ Len(rrHist) > 2 * rr.max
  /\ rrHist[Len(rrHist)].ret = 0

\* C8: every value LimitedGet(bound) returns lies in [0, bound), whatever the
\* bounds of the calls before it.
C8_LimitedGetInRange ==
  \A n \in 1..Len(rrHist) : rrHist[n].ret >= 0 /\ rrHist[n].ret < rrHist[n].bound

\* C8 witness: a call with a bound below the counter that a call with a larger
\* bound left behind.
C8_Witness ==
  /\ pc[Caller] = "caller"
  /\ \E n \in 2..Len(rrHist) :
       /\ rrHist[n - 1].bound > rrHist[n].bound
       /\ rrHist[n - 1].ret + 1 > rrHist[n].bound

\* The counter after the first n calls of the history h, made one after the
\* other on a counter that starts at 0.
RECURSIVE SeqCounter(_, _)
SeqCounter(h, n) ==
  IF n = 0 THEN 0 ELSE (SeqCounter(h, n - 1) % h[n].bound) + 1

\* C9: the values the concurrent calls of LimitedGet, or of Get, return are
\* those of the same calls made one after the other in the order they took
\* the lock (Get's bound being max), each call returns the value it read
\* under the lock, and any B calls with the bound B that follow each other in
\* that order return B distinct indices.
C9_CounterAtomic ==
  /\ \A n \in 1..Len(rrHist) :
       rrHist[n].ret = SeqCounter(rrHist, n - 1) % rrHist[n].bound
  /\ \A n \in 1..Len(rrHist) :
       LET B == rrHist[n].bound IN
         (n + B - 1 <= Len(rrHist) /\ \A k \in n..(n + B - 1) : rrHist[k].bound = B)
           => Cardinality({rrHist[k].ret : k \in n..(n + B - 1)}) = B
  /\ \A t \in Tasks :
       pc[t] \in {"rrInc", "rrUnlock", "getInc", "getUnlock"} =>
         \E n \in 1..Len(rrHist) :
           /\ rrHist[n].task = t
           /\ rrHist[n].ret = result[t]
           /\ \A k \in (n + 1)..Len(rrHist) : rrHist[k].task # t

\* Task u stands at the lock of LimitedGet or Get while task t holds it.
Contended(t, u) ==
  /\ t # u
  /\ mutex = t
  /\ \/ pc[u] = "loop" /\ currentTime[u] < startTime[u] + Timeout /\ i[u] < MaxIter
     \/ pc[u] = "caller" /\ Len(rrHist) < MaxCalls

\* C9 witness: two calls of LimitedGet(2) by different tasks have followed
\* each other, and one task stands at the lock while the other holds it.
C9_Witness ==
  /\ \E t, u \in Tasks : Contended(t, u) /\ pc[u] = "loop"
  /\ \E n \in 1..(Len(rrHist) - 1) :
       /\ rrHist[n].task # rrHist[n + 1].task
       /\ rrHist[n].bound = 2
       /\ rrHist[n + 1].bound = 2
       /\ rrHist[n].ret # rrHist[n + 1].ret

\* The same for Get: two calls by different tasks have followed each other
\* and one task stands at the lock while the other holds it.
C9_WitnessGet ==
  /\ \E t, u \in Tasks : Contended(t, u) /\ pc[u] = "caller"
  /\ \E n \in 1..(Len(rrHist) - 1) : rrHist[n].task # rrHist[n + 1].task

\* The clock readings of task t are those of one forwarding loop.
LoopReadings(t) ==
  /\ selects[t] >= 1
  /\ pc[t] \notin {"sample", "failed"}

\* C10: an attempt is begun only while the last reading of the clock is before
\* startTime + Timeout, startTime being the reading at the entry of the loop;
\* so the reading before the last one is never after that deadline, and the
\* last reading is no later than the deadline plus the time between the two,
\* which holds the one exchange made between them.
C10_DeadlineBound ==
  \A t \in Tasks :
    /\ InIteration(t) => currentTime[t] < startTime[t] + Timeout
    /\ LoopReadings(t) =>
         /\ currentTime[t] <= startTime[t] + Timeout + sampleGap[t]
         /\ i[t] > 0 => currentTime[t] < startTime[t] + Timeout + sampleGap[t]

\* C10 witness: a loop that made an exchange, read the clock at or after the
\* deadline and ended, the call failing.
C10_Witness ==
  \E t \in Tasks :
    /\ Failed(t)
    /\ Timeout > 0
    /\ sent[t] # <<>>
    /\ i[t] > 0
    /\ currentTime[t] >= startTime[t] + Timeout

(* ------------- successive requests, one erroring server --------------- *)

\* Two servers without a region: every request resolves to both.
TwoPlainServers ==
  <<UpstreamServer(1, NoAnnotations), UpstreamServer(2, NoAnnotations)>>

\* The first server errors at every exchange, every other server answers with
\* one record.
FirstErrors ==
  [a \in Addresses |-> IF a = Address(1)
                       THEN {[err |-> TRUE, answer |-> <<>>]}
                       ELSE {[err |-> FALSE, answer |-> <<AnswerRR>>]}]

\* The order in which the tasks are handed their requests.
TaskOrder == <<"t1", "t2">>

\* The requests before that of the k-th task have returned.
Turn(k) == \A j \in 1..(k - 1) : pc[TaskOrder[j]] = "done"

\* Apply is called for one request after the other, under RoundRobinLB.
NextSuccessive == Tick \/ \E k \in 1..Len(TaskOrder) : Turn(k) /\ RRStep(TaskOrder[k])

InitScenario4 ==
  /\ InitManager({TwoPlainServers}, {"RoundRobin"}, BOOLEAN, {FALSE}, TimeoutChoices)
  /\ upstream = FirstErrors
  /\ rr = NewIndexRoundRobin(Len(Servers))
  /\ pc = [t \in Tasks |-> "apply"]
  /\ InitTasks(Tasks, CandidateLists \ {<<>>})

SpecScenario4 == InitScenario4 /\ [][NextSuccessive]_vars

\* The last clock reading of t's loop is at or after the deadline of the loop.
DeadlinePassed(t) == currentTime[t] >= startTime[t] + Timeout

\* C11 as stated: with two servers under RoundRobin, the first always
\* erroring and the second always answering, a request fails only when an
\* erroring exchange of it completed at or after the deadline.
C11_Original ==
  \A t \in Tasks : Failed(t) => i[t] >= 1 /\ DeadlinePassed(t)

\* C11, amended: in that scenario no task crashes; a loop makes at most one
\* erroring exchange, and the attempt after it goes to the second server; a
\* request fails only when its last loop was never entered (Timeout = 0, or
\* the first clock reading already at the deadline) or when the erroring
\* exchange of that loop completed at or after the deadline.
C11_SuccessWhenLoopAdvances ==
  \A t \in Tasks :
    /\ pc[t] # "panic"
    /\ i[t] <= 1
    /\ \A n \in 1..Len(sent[t]) :
         sent[t][n].resp = Nil <=> sent[t][n].host = Address(1)
    /\ (InFlight(t) /\ i[t] = 1) => remoteHost[t] = Address(2)
    /\ Failed(t) => (i[t] = 0 \/ DeadlinePassed(t))
    /\ (Returned(t) /\ i[t] = 1 /\ ~DeadlinePassed(t)) => Succeeded(t)

\* The second of two successive requests met the erroring server, went on to
\* the second server before the deadline and succeeded, as did the first.
C11_Witness ==
  /\ Succeeded("t1") /\ Succeeded("t2")
  /\ Len(sent["t2"]) = 2
  /\ sent["t2"][1].host = Address(1) /\ sent["t2"][1].resp = Nil
  /\ sent["t2"][2].host = Address(2) /\ sent["t2"][2].resp # Nil
  /\ ~DeadlinePassed("t2")

(* ------------------------- ByOrder's index ---------------------------- *)

\* C12: under ByOrderLB, with a server in the resolved set, the index of every
\* iteration of the loop lies within the set: an exchange in flight goes to
\* servers[i] with 0 <= i < len(servers), and the loop never ends by an
\* out-of-range access.
C12_ByOrderIndexInRange ==
  \A t \in Tasks :
    (LBType = ByOrderLB /\ servers[t] # <<>>) =>
      /\ pc[t] # "panic"
      /\ InFlight(t) => InRange(servers[t], i[t])

(* ----------------- concurrent requests, both policies ----------------- *)

ApplyStep(t) == RRStep(t) \/ PickByOrder(t)

NextApply == Tick \/ \E t \in Tasks : ApplyStep(t)

\* Every task has a request with one candidate, under either policy, with and
\* without telemetry.
InitApply ==
  InitWith({TwoServers}, {"RoundRobin", "ByOrder"}, {FALSE}, BOOLEAN, {1}, Tasks,
           {<<QueryA>>})

SpecApply == InitApply /\ [][NextApply]_vars

\* C13: no step of concurrent Apply calls changes the configured servers, the
\* region groups, the timeout or the policy; the telemetry counters change
\* only when telemetry is enabled; under ByOrderLB the round-robin counter
\* does not change, so that under ByOrderLB without telemetry no shared state
\* changes at all.
C13_FrameEffect ==
  [][/\ Servers' = Servers
     /\ serversRegionMap' = serversRegionMap
     /\ Timeout' = Timeout
     /\ LBType' = LBType
     /\ regionMapNil' = regionMapNil
     /\ TelemetryEnabled' = TelemetryEnabled
     /\ ~TelemetryEnabled =>
          (request_count' = request_count /\ request_failed' = request_failed)
     /\ LBType = ByOrderLB => (rr' = rr /\ mutex' = mutex)
     /\ (LBType = ByOrderLB /\ ~TelemetryEnabled) => sharedVars' = sharedVars]_vars

\* Two concurrent requests have each completed an exchange: the counter has
\* advanced twice and telemetry has counted both attempts.
C13_Witness ==
  /\ LBType = RoundRobinLB /\ TelemetryEnabled
  /\ rr.current >= 2
  /\ \A t \in Tasks : Len(sent[t]) >= 1
  /\ \E a \in Addresses : request_count[a] >= 1

\* Two concurrent requests have each completed an exchange under ByOrderLB
\* without telemetry, and the shared state is as it was at the start.
C13_WitnessByOrder ==
  /\ LBType = ByOrderLB /\ ~TelemetryEnabled
  /\ \A t \in Tasks : Len(sent[t]) >= 1
  /\ rr = NewIndexRoundRobin(Len(Servers))
  /\ \A a \in Addresses : request_count[a] = 0 /\ request_failed[a] = 0

(* ------------------- construction, any annotation --------------------- *)

\* The annotations of a server: none, a region, or the region named like the
\* group of all servers.
AnyAnnotationChoices == AnnotationChoices \cup {RegionAnnotation(AllGroupName)}

AnyServerLists ==
  UNION {{[k \in 1..n |-> UpstreamServer(k, f[k])] : f \in [1..n -> AnyAnnotationChoices]} :
           n \in 0..MaxServers}

\* One request, under RoundRobinLB, to a manager built from any server list.
InitBuild ==
  InitWith(AnyServerLists, {"RoundRobin"}, BOOLEAN, {FALSE}, {1}, {"t1"}, {<<QueryA>>})

SpecBuild == InitBuild /\ [][NextConc]_vars

Range(s) == {s[n] : n \in 1..Len(s)}

\* s is u with some elements left out.
RECURSIVE IsSubSeq(_, _)
IsSubSeq(s, u) ==
  IF s = <<>> THEN TRUE
  ELSE IF u = <<>> THEN FALSE
  ELSE IF Head(s) = Head(u) THEN IsSubSeq(Tail(s), Tail(u))
  ELSE IsSubSeq(s, Tail(u))

\* C14: after construction, for any annotations, the group "all" holds every
\* configured server once, in configured order; a server with a region
\* annotation r is in group r; a server without one is in no group but "all";
\* every group is a sub-sequence of "all".
C14_GroupsAfterConstruction ==
  LET all == MapGet(serversRegionMap, AllGroupName)
  IN /\ all = [k \in 1..Len(Servers) |-> k]
     /\ \A k \in 1..Len(Servers) :
          LET ann == Servers[k].Annotations
          IN IF "region" \in DOMAIN ann
             THEN k \in Range(MapGet(serversRegionMap, ann["region"]))
             ELSE \A g \in DOMAIN serversRegionMap \ {AllGroupName} :
                    k \notin Range(serversRegionMap[g])
     /\ \A g \in DOMAIN serversRegionMap : IsSubSeq(serversRegionMap[g], all)

(* ------------------- servers of a fixed behaviour --------------------- *)

\* Each of the two configured servers gives back the same thing at every
\* exchange: an error, a response without a record, or an answer.
FixedUpstreams ==
  {[a \in Addresses |-> IF a = Address(1) THEN {o1} ELSE IF a = Address(2) THEN {o2}
                        ELSE Outcomes] : o1 \in Outcomes, o2 \in Outcomes}

\* One request, under either policy, with and without telemetry.
InitTelemetry ==
  /\ InitManager({TwoServers}, {"RoundRobin", "ByOrder"}, {FALSE}, BOOLEAN, {1})
  /\ upstream \in FixedUpstreams
  /\ rr = NewIndexRoundRobin(Len(Servers))
  /\ pc = [t \in Tasks |-> IF t = "t1" THEN "apply" ELSE "idle"]
  /\ InitTasks({"t1"}, CandidateLists \ {<<>>})

SpecTelemetry == InitTelemetry /\ [][NextApply]_vars

\* Every exchange with the server at address a errors.
Errors(a) == \A o \in upstream[a] : o.err

\* Task t completes an attempt in this step.
Attempt(t) == sent'[t] # sent[t]

\* C15: with telemetry enabled, an attempt adds one to request_count of the
\* contacted address and to nothing else of request_count; it adds one to
\* request_failed of that address when it errors, and leaves request_failed
\* alone when it does not (a response without an answer record included); no
\* other step changes a counter; request_failed <= request_count per address.
\* With telemetry disabled no step changes a counter.
C15_TelemetryCounters ==
  /\ [](\A a \in Addresses : request_failed[a] <= request_count[a])
  /\ [][/\ \A t \in Tasks :
            (Attempt(t) /\ TelemetryEnabled) =>
              /\ request_count' =
                   [request_count EXCEPT ![remoteHost[t]] = request_count[remoteHost[t]] + 1]
              /\ request_failed' =
                   [request_failed EXCEPT ![remoteHost[t]] =
                      request_failed[remoteHost[t]] + (IF Errors(remoteHost[t]) THEN 1 ELSE 0)]
        /\ (~TelemetryEnabled \/ \A t \in Tasks : ~Attempt(t)) =>
             (request_count' = request_count /\ request_failed' = request_failed)]_vars

\* With telemetry enabled, one attempt went to a server that errors and one
\* to a server that responds without an answer record: both are counted, the
\* first alone as failed.
C15_Witness ==
  /\ TelemetryEnabled
  /\ Errors(Address(1))
  /\ upstream[Address(2)] = {[err |-> FALSE, answer |-> <<>>]}
  /\ request_count[Address(1)] = 1 /\ request_failed[Address(1)] = 1
  /\ request_count[Address(2)] = 1 /\ request_failed[Address(2)] = 0

(* ---------------------- the budget of a candidate --------------------- *)

\* Task t enters forwardRequest for its current candidate in this step.
StartsCandidate(t) == pc[t] = "forward" /\ pc'[t] # "forward"

\* C16: the budget of a candidate starts when its own forwarding loop starts
\* (startTime is read anew, whatever time the earlier candidates took) and
\* stays put during the loop; Apply moves on to a fallback candidate only
\* when the last clock reading of the loop is at or after the deadline, so the
\* fallback candidate starts, and is first sent, at or after the previous
\* candidate's deadline.
C16_PerCandidateBudget ==
  [][\A t \in Tasks :
       /\ StartsCandidate(t) =>
            /\ startTime'[t] = now
            /\ qi[t] > 1 => now >= startTime[t] + Timeout
       /\ startTime'[t] # startTime[t] => StartsCandidate(t)
       /\ (qi'[t] > qi[t] /\ qi[t] >= 1) =>
            (pc[t] = "loop" /\ DeadlinePassed(t))]_vars

\* A request with two candidates under RoundRobinLB and Timeout > 0 failed
\* after an exchange for each candidate: the second candidate started at
\* least Timeout after the first, and the call lasted twice the Timeout.
C16_Witness ==
  /\ LBType = RoundRobinLB /\ Timeout > 0
  /\ Failed("t1")
  /\ Len(query["t1"].Queries) = 2
  /\ \E n, k \in 1..Len(sent["t1"]) : sent["t1"][n].cand = 1 /\ sent["t1"][k].cand = 2
  /\ startTime["t1"] >= Timeout
  /\ currentTime["t1"] >= 2 * Timeout

(* ------------- successive requests, a set of fixed size --------------- *)

\* Servers without a region, at least one: every request resolves to all of
\* them.
PlainServerLists ==
  {[k \in 1..n |-> UpstreamServer(k, NoAnnotations)] : n \in 1..MaxServers}

\* Every task has a request of one or two candidates, under RoundRobinLB; the
\* servers may give back anything.
InitSuccessive ==
  /\ InitWith(PlainServerLists, {"RoundRobin"}, {FALSE}, {FALSE}, {1}, Tasks,
              {<<QueryA>>, <<QueryA, QueryB>>})
  /\ \A t \in Tasks : metadata[t].Region = "zz"

SpecSuccessive == InitSuccessive /\ [][NextSuccessive]_vars

\* The calls of LimitedGet task t made, in order.
TaskHist(t) == SelectSeq(rrHist, LAMBDA e : e.task = t)

\* C17: under RoundRobinLB, with requests handled one after the other and
\* every request resolving to the same S servers, the first attempt uses
\* index 0 and each attempt uses the index after that of the attempt before,
\* modulo S, across the candidates of a request and across requests; the
\* server an attempt contacts is the one at that index; so any S attempts
\* that follow each other use S distinct indices and contact S distinct
\* servers.
C17_CyclicOrder ==
  LET S == Len(Servers) IN
    /\ \A n \in 1..Len(rrHist) :
         /\ rrHist[n].bound = S
         /\ rrHist[n].ret = IF n = 1 THEN 0 ELSE (rrHist[n - 1].ret + 1) % S
    /\ \A t \in Tasks :
         /\ Len(sent[t]) <= Len(TaskHist(t))
         /\ \A k \in 1..Len(sent[t]) :
              sent[t][k].host = HostAt(servers[t], TaskHist(t)[k].ret)
    /\ \A n \in 1..(Len(rrHist) - S + 1) :
         /\ {rrHist[k].ret : k \in n..(n + S - 1)} = 0..(S - 1)
         /\ Cardinality({Servers[rrHist[k].ret + 1].Address : k \in n..(n + S - 1)}) = S

\* With two servers the rotation has wrapped, and it went on from the first
\* candidate of a request to its second and from one request to the next.
C17_Witness ==
  /\ Len(Servers) = 2
  /\ Len(rrHist) >= 4
  /\ \E n, k \in 1..Len(sent["t1"]) : sent["t1"][n].cand = 1 /\ sent["t1"][k].cand = 2
  /\ \E n \in 1..(Len(rrHist) - 1) :
       rrHist[n].task = "t1" /\ rrHist[n + 1].task = "t2" /\ rrHist[n].ret = 0
  /\ Len(sent["t2"]) >= 1

(* ----------------------- any input to Apply --------------------------- *)

\* A client message with two questions, the first of class CHAOS (3).
OriginMsgTwoQuestions ==
  [Question |-> <<[Name |-> "api.ronco.", Qtype |-> 1, Qclass |-> 3],
                  [Name |-> "www.ronco.", Qtype |-> 16, Qclass |-> 1]>>,
   Answer |-> <<>>]

OriginMsgs == {OriginMsg, OriginMsgTwoQuestions}

\* One request, whatever its Result and its message, under either policy.
InitInputs ==
  /\ InitManager({TwoServers}, {"RoundRobin", "ByOrder"}, {FALSE}, {FALSE}, {1})
  /\ upstream = AnyUpstream
  /\ rr = NewIndexRoundRobin(Len(Servers))
  /\ pc = [t \in Tasks |-> IF t = "t1" THEN "apply" ELSE "idle"]
  /\ InitTasksOf({"t1"}, CandidateLists, {ALLOWED, DENIED}, OriginMsgs)
  /\ \A t \in Tasks \ {"t1"} : query[t] = EngineQuery(<<>>, ALLOWED, OriginMsg)

SpecInputs == InitInputs /\ [][Next]_vars

\* The one question of the message Apply sends for candidate n of task t.
QuestionOf(t, n) ==
  [Name |-> query[t].Queries[n].Name,
   Qtype |-> query[t].Queries[n].Type,
   Qclass |-> query[t].dnsMsg.Question[1].Qclass]

\* C18: the message forwardRequest holds, and every message sent, has exactly
\* one question, with the name and type of the current candidate and the
\* class of the first question of the originating message; a successful
\* result carries the candidate list of the input and Result = ALLOWED; no
\* step changes the input, neither its message nor its candidate list.
C18_UpstreamMessage ==
  /\ [](\A t \in Tasks :
          /\ pc[t] \in {"sample", "loop", "rrWrap", "rrRead", "rrInc", "rrUnlock", "exchange"}
               => upsRequest[t].Question = <<QuestionOf(t, qi[t])>>
          /\ \A n \in 1..Len(sent[t]) : sent[t][n].question = QuestionOf(t, sent[t][n].cand)
          /\ Succeeded(t) =>
               /\ ret[t].eq[1].Queries = query[t].Queries
               /\ ret[t].eq[1].Result = ALLOWED)
  /\ [][query' = query]_vars

\* A request whose message has two questions, the first of class 3, has sent
\* its second candidate upstream and got an answer.
C18_Witness ==
  /\ query["t1"].dnsMsg = OriginMsgTwoQuestions
  /\ Succeeded("t1")
  /\ Len(sent["t1"]) >= 2
  /\ sent["t1"][Len(sent["t1"])].cand = 2
  /\ sent["t1"][Len(sent["t1"])].question = [Name |-> QueryB.Name, Qtype |-> QueryB.Type, Qclass |-> 3]

(* -------------------------- no server at all -------------------------- *)

\* C19: with no upstream server configured, so that every resolved set is
\* empty, Apply on a non-empty candidate list does not crash under either
\* policy, and what it returns is the upstream-unavailable error.
C19_EmptySetReturnsError ==
  Servers = <<>> =>
    \A t \in Tasks :
      /\ pc[t] # "panic"
      /\ (Returned(t) /\ ~EmptyInput(query[t])) => ret[t].err = Ref(ErrNoResponse)

(* ------------------------- the Result field --------------------------- *)

\* C20: Apply does not look at Result. Whatever the Result of its input, the
\* step that leaves Apply's entry returns the empty-input error exactly when
\* the candidate list is empty and otherwise goes on to forward the first
\* candidate; and every successful call, that of a DENIED input included,
\* returns Result = ALLOWED.
C20_ResultNotInspected ==
  /\ [](\A t \in Tasks : Succeeded(t) => ret[t].eq[1].Result = ALLOWED)
  /\ [][\A t \in Tasks :
          (pc[t] = "apply" /\ pc'[t] # "apply") =>
            IF Len(query[t].Queries) = 0
            THEN pc'[t] = "done" /\ ret'[t].err = Ref(ErrEmptyQuery)
            ELSE pc'[t] = "forward" /\ qi'[t] = 1 /\ ret'[t] = NotReturned]_vars

\* A DENIED query with a candidate was sent upstream, was answered, and came
\* back from Apply as ALLOWED.
C20_Witness ==
  /\ query["t1"].Result = DENIED
  /\ query["t1"].Queries # <<>>
  /\ sent["t1"] # <<>>
  /\ sent["t1"][Len(sent["t1"])].resp # Nil
  /\ Succeeded("t1")
  /\ ret["t1"].eq[1].Result = ALLOWED

====
